---- MODULE Spec2Model ----
(***************************************************************************)
(* Model of the random test-data generators of src/src/resources/generator.h *)
(* (random, permutation, unique_vector, Tree, BinaryTree, Graph).  One call  *)
(* of a generator runs at a time; every random draw is a nondeterministic    *)
(* choice, every loop iteration of the source is one step.                   *)
(*                                                                           *)
(* C++ vectors are 0-indexed, TLA+ sequences 1-indexed: the source's a[i] is *)
(* written a[i + 1] here.                                                    *)
(***************************************************************************)
EXTENDS Integers, Sequences, FiniteSets, TLC

\* ---------------------------------------------------------------- bounds
\* largest vertex count / length passed to permutation, Tree, BinaryTree
MaxN == 4
\* largest vertex count and edge count passed to Graph
MaxGraphN == 3
MaxGraphM == 4
\* vectors up to this length are shuffled with every draw explored; for
\* longer ones only the draws 0 and i of each shuffle step are explored
MaxFullShuffle == 4
\* largest count requested from unique_vector
MaxUVN == 2
\* largest pool handed to random(pool)
MaxPool == 2
\* engines are counted up to this number; the count stays there once reached
MaxEngines == 2

\* values the bounds l, r of unique_vector are drawn from
UVVals == {1, 2, 10, 11, 41}
\* values the start of a permutation is drawn from
StartVals == {-2, 0, 1, 7}
\* weight ranges (l, r) handed to the weighted constructors
WeightBounds == {<<1, 1>>, <<2, 1>>}
\* elements of the pools handed to random(pool)
PoolVals == {5, 7}
\* values the bounds l, r of random(l, r) are drawn from
RandomVals == {-1, 3, 7}
\* values a read past the end of a vector can produce
OOBValues == {0, 2}

\* ------------------------------------------------------- pure helpers
\* a sampler that does not swap reversed bounds
randomNoSwap(lo, hi) == lo..hi

\* random(T l, T r) for an integral T: the values the call can return
\* (bounds swapped when reversed, then uniform_int_distribution(l, r))
random(lo, hi) == IF lo > hi THEN hi..lo ELSE lo..hi

\* iota that starts one too high
iotaOffByOne(n, start) == [x \in 1..n |-> start + x]

\* resize(n); iota(begin, end, start)
iota(n, start) == [x \in 1..n |-> start + x - 1]

\* a swap that copies position b over position a and loses a's value
iter_swapCopy(vec, a, b) ==
  [x \in 1..Len(vec) |-> IF x = a + 1 THEN vec[b + 1] ELSE vec[x]]

\* iter_swap of the 0-based positions a and b of vec
iter_swap(vec, a, b) ==
  [x \in 1..Len(vec) |-> IF x = a + 1 THEN vec[b + 1]
                         ELSE IF x = b + 1 THEN vec[a + 1]
                         ELSE vec[x]]

\* the positions step i of std::shuffle can swap position i with
ShuffleDraws(i, size) == IF size <= MaxFullShuffle THEN 0..i ELSE {0, i}

SeqRange(q) == {q[x] : x \in 1..Len(q)}

\* operator< of array<long long, 2>: lexicographic
ArrayLess(a, b) == a[1] < b[1] \/ (a[1] = b[1] /\ a[2] < b[2])

\* vector.assign(set.begin(), set.end()) for a std::set: ascending order
RECURSIVE AssignFromSet(_)
AssignFromSet(S) ==
  IF S = {} THEN <<>>
  ELSE LET least == CHOOSE a \in S : \A b \in S \ {a} : ArrayLess(a, b)
       IN <<least>> \o AssignFromSet(S \ {least})

\* the orders an unordered_set can be iterated in
Orderings(S) ==
  {q \in [1..Cardinality(S) -> S] : \A a, b \in 1..Cardinality(S) : a # b => q[a] # q[b]}

NoArgs == [name |-> "none", n |-> 0, m |-> 0, l |-> 0, r |-> 0, start |-> 0,
           weighted |-> FALSE, pool |-> <<>>]

\* ------------------------------------------------------------- state
VARIABLES
  pc,              \* position of the running call
  call,            \* the generator called and its arguments
  perm,            \* permutation: the vector being built (also Tree/Graph's perm)
  k,               \* index of std::shuffle's loop
  i,               \* index of the generator's for loop
  edges,           \* GraphBase::edges
  weights,         \* GraphBase::weights
  isWeighted,      \* GraphBase::isWeighted
  children_count,  \* BinaryTree::generateEdges' children_count
  oob,             \* an index outside a vector's range has been used
  edgeSet,         \* Graph::generateEdges' edgeSet
  l, r,            \* unique_vector's bounds after the swap
  v,               \* unique_vector's shuffled domain
  s,               \* unique_vector's unordered_set
  uvec,            \* the unique_vector being built (*this)
  ret,             \* value returned by random(pool)
  idx,             \* index random(pool) computed
  err,             \* message of the exception thrown, "" if none
  drew,            \* a random draw has been consumed by the running call
  engines,         \* engines constructed and seeded since the process started
  gen_init         \* random(T, T)'s static engine gen has been initialised

vars == <<pc, call, perm, k, i, edges, weights, isWeighted, children_count, oob,
          edgeSet, l, r, v, s, uvec, ret, idx, err, drew, engines, gen_init>>

Init ==
  /\ pc = "idle"
  /\ call = NoArgs
  /\ perm = <<>>
  /\ k = 0
  /\ i = 0
  /\ edges = <<>>
  /\ weights = <<>>
  /\ isWeighted = FALSE
  /\ children_count = <<>>
  /\ oob = FALSE
  /\ edgeSet = {}
  /\ l = 0
  /\ r = 0
  /\ v = <<>>
  /\ s = {}
  /\ uvec = <<>>
  /\ ret = 0
  /\ idx = 0
  /\ err = ""
  /\ drew = FALSE
  /\ engines = 0
  /\ gen_init = FALSE

\* a new engine is constructed and seeded from random_device
NewEngine == IF engines < MaxEngines THEN engines + 1 ELSE engines

\* mt19937(random_device()()): a temporary engine for one std::shuffle
TemporaryEngine ==
  /\ engines' = NewEngine
  /\ gen_init' = gen_init

\* static random_device rd; static mt19937_64 gen(rd()): constructed and
\* seeded by the first call of random(l, r), reused by every later one
StaticEngine ==
  /\ engines' = IF gen_init THEN engines ELSE NewEngine
  /\ gen_init' = TRUE

\* a throw: the constructor is left with nothing built
Throw(msg) ==
  /\ pc' = "error"
  /\ err' = msg
  /\ UNCHANGED <<perm, k, i, edges, weights, isWeighted, children_count, oob,
                 edgeSet, l, r, v, s, uvec, ret, idx, drew, engines, gen_init>>

\* where a constructor goes once its edges are built: the weighted constructor's
\* body runs after the delegated unweighted one
AfterEdges == IF call.weighted THEN "weights" ELSE "done"

\* ------------------------------------------------------- permutation
\* permutation(n, start): resize, iota, then std::shuffle with a fresh engine
\* seeded from random_device
PermutationInit(n, start) ==
  /\ perm' = iota(n, start)
  /\ k' = 1
  /\ drew' = TRUE
  /\ TemporaryEngine

CallPermutation ==
  /\ pc = "idle"
  /\ \E n \in 0..MaxN, start \in StartVals :
       /\ call' = [NoArgs EXCEPT !.name = "permutation", !.n = n, !.start = start]
       /\ PermutationInit(n, start)
  /\ pc' = "perm_shuffle"
  /\ UNCHANGED <<i, edges, weights, isWeighted, children_count, oob,
                 edgeSet, l, r, v, s, uvec, ret, idx, err>>

\* one step of std::shuffle: swap position k with a drawn position in [0, k]
PermShuffleStep ==
  /\ pc = "perm_shuffle"
  /\ k < Len(perm)
  /\ \E j \in ShuffleDraws(k, Len(perm)) : perm' = iter_swap(perm, k, j)
  /\ k' = k + 1
  /\ UNCHANGED <<pc, call, i, edges, weights, isWeighted, children_count, oob,
                 edgeSet, l, r, v, s, uvec, ret, idx, err, drew, engines, gen_init>>

\* the permutation is built; control returns to the constructor that made it
PermShuffleEnd ==
  /\ pc = "perm_shuffle"
  /\ k >= Len(perm)
  /\ pc' = CASE call.name = "permutation" -> "done"
             [] call.name = "Tree" -> "tree_loop"
             [] call.name = "BinaryTree" -> "bt_loop"
             [] call.name = "Graph" -> "graph_backbone"
  /\ i' = IF call.name = "permutation" THEN i ELSE 1
  /\ children_count' = IF call.name = "BinaryTree"
                       THEN [x \in 0..(call.n - 1) |-> 0] ELSE children_count
  /\ UNCHANGED <<call, perm, k, edges, weights, isWeighted, oob,
                 edgeSet, l, r, v, s, uvec, ret, idx, err, drew, engines, gen_init>>

\* ---------------------------------------------------------------- Tree
\* a size check that lets n = 0 through
InvalidTreeSizeStrict(n) == n < 0

\* if (n <= 0) throw
InvalidTreeSize(n) == n <= 0

\* a parent draw that can land on the vertex being attached
TreeParentDrawsInclusive(j) == random(0, j)

\* random(0, i - 1): the positions of the already-placed vertices
TreeParentDraws(j) == random(0, j - 1)

CallTree ==
  /\ pc = "idle"
  /\ \E n \in -1..MaxN, w \in BOOLEAN, wb \in WeightBounds :
       /\ call' = [NoArgs EXCEPT !.name = "Tree", !.n = n, !.weighted = w,
                                 !.l = IF w THEN wb[1] ELSE 0,
                                 !.r = IF w THEN wb[2] ELSE 0]
       /\ IF InvalidTreeSize(n)
          THEN Throw("Number of vertices in a tree must be positive")
          ELSE /\ PermutationInit(n, 1)
               /\ pc' = "perm_shuffle"
               /\ UNCHANGED <<i, edges, weights, isWeighted, children_count, oob,
                              edgeSet, l, r, v, s, uvec, ret, idx, err>>

TreeLoopStep ==
  /\ pc = "tree_loop"
  /\ i < call.n
  /\ \E j \in TreeParentDraws(i) :
       edges' = Append(edges, <<perm[i + 1], perm[j + 1]>>)
  /\ i' = i + 1
  /\ UNCHANGED <<pc, call, perm, k, weights, isWeighted, children_count, oob,
                 edgeSet, l, r, v, s, uvec, ret, idx, err, drew>>
  /\ StaticEngine

TreeLoopEnd ==
  /\ pc = "tree_loop"
  /\ i >= call.n
  /\ pc' = AfterEdges
  /\ i' = 0
  /\ UNCHANGED <<call, perm, k, edges, weights, isWeighted, children_count, oob,
                 edgeSet, l, r, v, s, uvec, ret, idx, err, drew, engines, gen_init>>

\* ---------------------------------------------------------- BinaryTree
CallBinaryTree ==
  /\ pc = "idle"
  /\ \E n \in -1..MaxN, w \in BOOLEAN, wb \in WeightBounds :
       /\ call' = [NoArgs EXCEPT !.name = "BinaryTree", !.n = n, !.weighted = w,
                                 !.l = IF w THEN wb[1] ELSE 0,
                                 !.r = IF w THEN wb[2] ELSE 0]
       /\ IF n <= 0
          THEN Throw("Number of nodes must be positive")
          ELSE /\ PermutationInit(n, 1)
               /\ pc' = "perm_shuffle"
               /\ UNCHANGED <<i, edges, weights, isWeighted, children_count, oob,
                              edgeSet, l, r, v, s, uvec, ret, idx, err>>

\* children_count is vector<int>(n, 0): its valid indices are 0..n-1
InRange(cc, x) == x \in DOMAIN cc

\* the values children_count[x] can read: the element, or, past the end of
\* the vector, whatever the memory there holds
ReadChildrenCount(cc, x) == IF InRange(cc, x) THEN {cc[x]} ELSE OOBValues

\* children_count[x]++: past the end of the vector the write lands outside it
IncrChildrenCount(cc, x) == IF InRange(cc, x) THEN [cc EXCEPT ![x] = @ + 1] ELSE cc

\* one iteration of the while (true) loop: draw a placed vertex, take it as the
\* parent if its count is below 2 (and then finish the for loop's iteration)
BTDraw ==
  /\ pc = "bt_loop"
  /\ i < call.n
  /\ \E j \in random(0, i - 1) :
       LET u == perm[i + 1]
           p == perm[j + 1]
       IN \E c \in ReadChildrenCount(children_count, p) :
            /\ oob' = (oob \/ ~InRange(children_count, p))
            /\ IF c < 2
               THEN /\ edges' = Append(edges, <<u, p>>)
                    /\ children_count' = IncrChildrenCount(children_count, p)
                    /\ i' = i + 1
               ELSE UNCHANGED <<edges, children_count, i>>
  /\ UNCHANGED <<pc, call, perm, k, weights, isWeighted,
                 edgeSet, l, r, v, s, uvec, ret, idx, err, drew>>
  /\ StaticEngine

BTLoopEnd ==
  /\ pc = "bt_loop"
  /\ i >= call.n
  /\ pc' = AfterEdges
  /\ i' = 0
  /\ UNCHANGED <<call, perm, k, edges, weights, isWeighted, children_count, oob,
                 edgeSet, l, r, v, s, uvec, ret, idx, err, drew, engines, gen_init>>

\* --------------------------------------------------------------- Graph
\* edgeSet.find({u, v}) == edgeSet.end(): the array {u, v} itself is not in the set
NotFound(es, u, w) == <<u, w>> \notin es

CallGraph ==
  /\ pc = "idle"
  /\ \E n \in -1..MaxGraphN, m \in -1..MaxGraphM, w \in BOOLEAN, wb \in WeightBounds :
       /\ call' = [NoArgs EXCEPT !.name = "Graph", !.n = n, !.m = m, !.weighted = w,
                                 !.l = IF w THEN wb[1] ELSE 0,
                                 !.r = IF w THEN wb[2] ELSE 0]
       /\ IF n < 0 \/ m < 0
          THEN Throw("Number of vertices and edges in a graph must be non-negative")
          ELSE /\ PermutationInit(n, 1)
               /\ pc' = "perm_shuffle"
               /\ UNCHANGED <<i, edges, weights, isWeighted, children_count, oob,
                              edgeSet, l, r, v, s, uvec, ret, idx, err>>

\* phase 1: for (i = 1; i < n && edgeSet.size() < m; i++)
GraphBackboneStep ==
  /\ pc = "graph_backbone"
  /\ i < call.n /\ Cardinality(edgeSet) < call.m
  /\ \E j \in random(0, i - 1) :
       LET u == perm[i + 1]
           w == perm[j + 1]
       IN edgeSet' = IF NotFound(edgeSet, u, w) THEN edgeSet \cup {<<u, w>>} ELSE edgeSet
  /\ i' = i + 1
  /\ UNCHANGED <<pc, call, perm, k, edges, weights, isWeighted, children_count, oob,
                 l, r, v, s, uvec, ret, idx, err, drew>>
  /\ StaticEngine

GraphBackboneEnd ==
  /\ pc = "graph_backbone"
  /\ ~(i < call.n /\ Cardinality(edgeSet) < call.m)
  /\ pc' = "graph_fill"
  /\ UNCHANGED <<call, perm, k, i, edges, weights, isWeighted, children_count, oob,
                 edgeSet, l, r, v, s, uvec, ret, idx, err, drew, engines, gen_init>>

\* phase 2: while (edgeSet.size() < m), one drawn pair per iteration
GraphFillStep ==
  /\ pc = "graph_fill"
  /\ Cardinality(edgeSet) < call.m
  /\ \E u \in random(1, call.n), w \in random(1, call.n) :
       edgeSet' = IF u # w /\ NotFound(edgeSet, u, w)
                  THEN edgeSet \cup {<<u, w>>} ELSE edgeSet
  /\ UNCHANGED <<pc, call, perm, k, i, edges, weights, isWeighted, children_count, oob,
                 l, r, v, s, uvec, ret, idx, err, drew>>
  /\ StaticEngine

\* the loop is left; edges.assign(edgeSet.begin(), edgeSet.end())
GraphFillEnd ==
  /\ pc = "graph_fill"
  /\ ~(Cardinality(edgeSet) < call.m)
  /\ edges' = AssignFromSet(edgeSet)
  /\ pc' = AfterEdges
  /\ i' = 0
  /\ UNCHANGED <<call, perm, k, weights, isWeighted, children_count, oob,
                 edgeSet, l, r, v, s, uvec, ret, idx, err, drew, engines, gen_init>>

\* ------------------------------------------------------- unique_vector
\* a threshold that sends the boundary to rejection sampling
ShuffleAllStrict(n, lo, hi) == hi - lo + 1 < 10 * n

\* static_cast<size_t>(r - l + 1) <= 10 * n
ShuffleAll(n, lo, hi) == hi - lo + 1 <= 10 * n

CallUniqueVector ==
  /\ pc = "idle"
  /\ \E n \in 0..MaxUVN, a \in UVVals, b \in UVVals :
       LET lo == IF a > b THEN b ELSE a
           hi == IF a > b THEN a ELSE b
       IN /\ call' = [NoArgs EXCEPT !.name = "unique_vector", !.n = n, !.l = a, !.r = b]
          /\ IF n > hi - lo + 1
             THEN Throw("Range too small for requested number of unique elements")
             ELSE /\ l' = lo
                  /\ r' = hi
                  /\ IF ShuffleAll(n, lo, hi)
                     THEN /\ v' = iota(hi - lo + 1, lo)
                          /\ k' = 1
                          /\ drew' = TRUE
                          /\ TemporaryEngine
                          /\ pc' = "uv_shuffle"
                     ELSE /\ pc' = "uv_reject"
                          /\ UNCHANGED <<v, k, drew, engines, gen_init>>
                  /\ UNCHANGED <<perm, i, edges, weights, isWeighted, children_count,
                                 oob, edgeSet, s, uvec, ret, idx, err>>

UVShuffleStep ==
  /\ pc = "uv_shuffle"
  /\ k < Len(v)
  /\ \E j \in ShuffleDraws(k, Len(v)) : v' = iter_swap(v, k, j)
  /\ k' = k + 1
  /\ UNCHANGED <<pc, call, perm, i, edges, weights, isWeighted, children_count, oob,
                 edgeSet, l, r, s, uvec, ret, idx, err, drew, engines, gen_init>>

\* this->assign(v.begin(), v.begin() + n)
UVShuffleEnd ==
  /\ pc = "uv_shuffle"
  /\ k >= Len(v)
  /\ uvec' = SubSeq(v, 1, call.n)
  /\ pc' = "done"
  /\ UNCHANGED <<call, perm, k, i, edges, weights, isWeighted, children_count, oob,
                 edgeSet, l, r, v, s, ret, idx, err, drew, engines, gen_init>>

\* while (s.size() < n) s.insert(random(l, r))
UVRejectStep ==
  /\ pc = "uv_reject"
  /\ Cardinality(s) < call.n
  /\ \E x \in random(l, r) : s' = s \cup {x}
  /\ drew' = TRUE
  /\ StaticEngine
  /\ UNCHANGED <<pc, call, perm, k, i, edges, weights, isWeighted, children_count, oob,
                 edgeSet, l, r, v, uvec, ret, idx, err>>

\* this->assign(s.begin(), s.end())
UVRejectEnd ==
  /\ pc = "uv_reject"
  /\ ~(Cardinality(s) < call.n)
  /\ uvec' \in Orderings(s)
  /\ pc' = "done"
  /\ UNCHANGED <<call, perm, k, i, edges, weights, isWeighted, children_count, oob,
                 edgeSet, l, r, v, s, ret, idx, err, drew, engines, gen_init>>

\* -------------------------------------------------------- random(l, r)
\* random(T l, T r) called directly with an integral T
CallRandom ==
  /\ pc = "idle"
  /\ \E a \in RandomVals, b \in RandomVals :
       call' = [NoArgs EXCEPT !.name = "random", !.l = a, !.r = b]
  /\ pc' = "random_draw"
  /\ StaticEngine
  /\ UNCHANGED <<perm, k, i, edges, weights, isWeighted, children_count, oob,
                 edgeSet, l, r, v, s, uvec, ret, idx, err, drew>>

\* if (l > r) swap(l, r); return dist(gen)
RandomDraw ==
  /\ pc = "random_draw"
  /\ ret' \in random(call.l, call.r)
  /\ drew' = TRUE
  /\ pc' = "done"
  /\ UNCHANGED <<call, perm, k, i, edges, weights, isWeighted, children_count, oob,
                 edgeSet, l, r, v, s, uvec, idx, err, engines, gen_init>>

\* -------------------------------------------------------- random(pool)
\* random(const vector<T>&) and random(const string&):
\* a[random(0, static_cast<int>(a.size()) - 1)]
Pools == UNION {[1..len -> PoolVals] : len \in 0..MaxPool}

\* the values a[x] can read: the element, or, outside the pool, whatever the
\* memory there holds
ReadPool(a, x) == IF x \in 0..(Len(a) - 1) THEN {a[x + 1]} ELSE OOBValues

CallRandomPool ==
  /\ pc = "idle"
  /\ \E name \in {"random_vector", "random_string"}, a \in Pools :
       /\ call' = [NoArgs EXCEPT !.name = name, !.pool = a]
       /\ \E x \in random(0, Len(a) - 1) :
            /\ idx' = x
            /\ oob' = (x \notin 0..(Len(a) - 1))
            /\ ret' \in ReadPool(a, x)
  /\ drew' = TRUE
  /\ StaticEngine
  /\ pc' = "done"
  /\ UNCHANGED <<perm, k, i, edges, weights, isWeighted, children_count,
                 edgeSet, l, r, v, s, uvec, err>>

\* --------------------------------------------------- weighted constructors
\* Tree(n, l, r), BinaryTree(n, l, r): n - 1 weights; Graph(n, m, l, r): m weights
\* a weight loop that runs once per vertex instead of once per edge
WeightCountPerVertex == IF call.name = "Graph" THEN call.m ELSE call.n

WeightCount == IF call.name = "Graph" THEN call.m ELSE call.n - 1

WeightStep ==
  /\ pc = "weights"
  /\ i < WeightCount
  /\ \E w \in random(call.l, call.r) : weights' = Append(weights, w)
  /\ i' = i + 1
  /\ UNCHANGED <<pc, call, perm, k, edges, isWeighted, children_count, oob,
                 edgeSet, l, r, v, s, uvec, ret, idx, err, drew>>
  /\ StaticEngine

WeightEnd ==
  /\ pc = "weights"
  /\ i >= WeightCount
  /\ isWeighted' = TRUE
  /\ pc' = "done"
  /\ UNCHANGED <<call, perm, k, i, edges, weights, children_count, oob,
                 edgeSet, l, r, v, s, uvec, ret, idx, err, drew, engines, gen_init>>

\* ------------------------------------------------------------ return
\* the caller takes the result (or catches the exception); the next call
\* starts from fresh objects
Return ==
  /\ pc \in {"done", "error"}
  /\ pc' = "idle"
  /\ call' = NoArgs
  /\ perm' = <<>> /\ k' = 0 /\ i' = 0 /\ edges' = <<>> /\ weights' = <<>>
  /\ isWeighted' = FALSE /\ children_count' = <<>> /\ oob' = FALSE
  /\ edgeSet' = {} /\ l' = 0 /\ r' = 0 /\ v' = <<>> /\ s' = {} /\ uvec' = <<>>
  /\ ret' = 0 /\ idx' = 0 /\ err' = "" /\ drew' = FALSE
  /\ UNCHANGED <<engines, gen_init>>

Next ==
  \/ CallPermutation
  \/ PermShuffleStep
  \/ PermShuffleEnd
  \/ CallTree
  \/ TreeLoopStep
  \/ TreeLoopEnd
  \/ CallBinaryTree
  \/ BTDraw
  \/ BTLoopEnd
  \/ CallGraph
  \/ GraphBackboneStep
  \/ GraphBackboneEnd
  \/ GraphFillStep
  \/ GraphFillEnd
  \/ CallUniqueVector
  \/ UVShuffleStep
  \/ UVShuffleEnd
  \/ UVRejectStep
  \/ UVRejectEnd
  \/ CallRandom
  \/ RandomDraw
  \/ CallRandomPool
  \/ WeightStep
  \/ WeightEnd
  \/ Return

Spec == Init /\ [][Next]_vars

\* ================================================================ claims
\* union-find over the labels 1..n after the first j edges of es: every label
\* mapped to the representative of its component
RECURSIVE Find(_, _, _)
Find(es, j, n) ==
  IF j = 0 THEN [x \in 1..n |-> x]
  ELSE LET prev == Find(es, j - 1, n)
           a == prev[es[j][1]]
           b == prev[es[j][2]]
       IN [x \in 1..n |-> IF prev[x] = b THEN a ELSE prev[x]]

\* es is a tree on the labels 1..n: n-1 edges over 1..n, every label covered
\* when n >= 2, every edge joins two different components, one component left
IsTree(es, n) ==
  /\ Len(es) = n - 1
  /\ \A j \in 1..Len(es) : es[j][1] \in 1..n /\ es[j][2] \in 1..n
  /\ (n >= 2 => \A x \in 1..n : \E j \in 1..Len(es) : x \in {es[j][1], es[j][2]})
  /\ \A j \in 1..Len(es) : Find(es, j - 1, n)[es[j][1]] # Find(es, j - 1, n)[es[j][2]]
  /\ Cardinality({Find(es, Len(es), n)[x] : x \in 1..n}) = 1

\* number of edges of es whose second endpoint (attachment target) is x
TargetCount(es, x) == Cardinality({j \in 1..Len(es) : es[j][2] = x})

\* the largest edge count of a simple graph on n vertices
MaxSimpleEdges(n) == (n * (n - 1)) \div 2

\* C1: a returned Tree(n), n > 0, has exactly n-1 edges over the labels 1..n,
\* covers every label when n >= 2, and is connected and acyclic (each edge, in
\* result order, joins two different components; one component remains).
C1_TreeIsTree ==
  (pc = "done" /\ call.name = "Tree") => IsTree(edges, call.n)

C1_Witness ==
  pc = "done" /\ call.name = "Tree" /\ call.n >= 4 /\ Len(edges) = call.n - 1
  /\ edges[3][2] # edges[1][2]

\* C2: a returned BinaryTree(n), n > 0, is a tree in which no label is the
\* attachment target (second endpoint) of more than 2 edges.
C2_BinaryTreeTargetsAtMostTwo ==
  (pc = "done" /\ call.name = "BinaryTree") =>
    /\ IsTree(edges, call.n)
    /\ \A x \in 1..call.n : TargetCount(edges, x) <= 2

\* no two positions of es hold the same undirected edge, and no self-loop
IsSimple(es) ==
  /\ \A j \in 1..Len(es) : es[j][1] # es[j][2]
  /\ \A a, b \in 1..Len(es) :
       a # b => {es[a][1], es[a][2]} # {es[b][1], es[b][2]}

\* C3: a returned Graph(n, m) with n >= 0 and 0 <= m <= n(n-1)/2 has exactly m
\* edges, no self-loop, and no undirected edge twice (neither (u, v) twice nor
\* both (u, v) and (v, u)).
C3_GraphIsSimple ==
  (pc = "done" /\ call.name = "Graph" /\ call.m <= MaxSimpleEdges(call.n)) =>
    /\ Len(edges) = call.m
    /\ IsSimple(edges)

\* some pair the fill loop can draw would still be inserted
FillCanProgress ==
  \E u \in random(1, call.n), w \in random(1, call.n) : u # w /\ NotFound(edgeSet, u, w)

\* C4: Graph(n, m) with n >= 0 and m > n(n-1)/2 fails with an error: it never
\* returns a structure, and it is never in a fill loop that cannot end.
C4_GraphTooManyEdgesFails ==
  (call.name = "Graph" /\ call.n >= 0 /\ call.m > MaxSimpleEdges(call.n)) =>
    /\ pc # "done"
    /\ (pc = "graph_fill" /\ Cardinality(edgeSet) < call.m => FillCanProgress)

\* C5: a returned Graph(n, m) with m = n(n-1)/2 is the complete graph on the
\* labels 1..n: every unordered pair of distinct labels is exactly one edge.
C5_GraphAtMaximumIsComplete ==
  (pc = "done" /\ call.name = "Graph" /\ call.n >= 0
     /\ call.m = MaxSimpleEdges(call.n)) =>
    \A a, b \in 1..call.n :
      a < b => Cardinality({j \in 1..Len(edges) : {edges[j][1], edges[j][2]} = {a, b}}) = 1

\* C6: a returned permutation(n, start), n >= 0, has length n and holds every
\* value of start..start+n-1 exactly once.
C6_PermutationIsBijection ==
  (pc = "done" /\ call.name = "permutation") =>
    /\ Len(perm) = call.n
    /\ SeqRange(perm) = call.start..(call.start + call.n - 1)
    /\ \A a, b \in 1..Len(perm) : a # b => perm[a] # perm[b]

C6_Witness ==
  pc = "done" /\ call.name = "permutation" /\ call.n >= 3 /\ call.start # 1
  /\ perm[1] # call.start /\ perm[call.n] # call.start + call.n - 1

\* C7: a returned unique_vector(n, lo, hi), n <= |hi-lo|+1, has exactly n
\* values, each between the smaller and the larger bound, pairwise distinct,
\* on the shuffle-all path and on the rejection-sampling path.
C7_UniqueVectorDistinctInRange ==
  (pc = "done" /\ call.name = "unique_vector") =>
    /\ Len(uvec) = call.n
    /\ \A a \in 1..Len(uvec) :
         /\ uvec[a] >= (IF call.l < call.r THEN call.l ELSE call.r)
         /\ uvec[a] <= (IF call.l < call.r THEN call.r ELSE call.l)
    /\ \A a, b \in 1..Len(uvec) : a # b => uvec[a] # uvec[b]

C7_Witness ==
  pc = "done" /\ call.name = "unique_vector" /\ call.l > call.r /\ call.n = 2
  /\ v # <<>> /\ Len(uvec) = 2 /\ uvec[1] > uvec[2] /\ uvec[1] # r

\* the precondition of the running call is violated
PreconditionViolated ==
  \/ call.name \in {"Tree", "BinaryTree"} /\ call.n <= 0
  \/ call.name = "Graph" /\ (call.n < 0 \/ call.m < 0)
  \/ call.name = "unique_vector"
       /\ call.n > (IF call.l < call.r THEN call.r - call.l ELSE call.l - call.r) + 1

\* nothing has been drawn and nothing has been built
NothingBuilt ==
  /\ ~drew
  /\ perm = <<>> /\ edges = <<>> /\ edgeSet = {} /\ weights = <<>> /\ ~isWeighted
  /\ children_count = <<>> /\ v = <<>> /\ s = {} /\ uvec = <<>>

\* C8: a call whose precondition is violated is in its error state with no
\* random draw consumed and no edge, weight or element built (weighted
\* constructors included), and an error state never holds anything built.
C8_PreconditionFailsBeforeAnyWork ==
  /\ (PreconditionViolated => pc = "error" /\ err # "" /\ NothingBuilt)
  /\ (pc = "error" => PreconditionViolated /\ NothingBuilt)

C8_Witness ==
  pc = "error" /\ call.name = "Tree" /\ call.weighted /\ call.n = 0 /\ NothingBuilt

\* C9: random(pool) on an empty pool fails with an error without computing an
\* index or reading the pool; on a non-empty pool it returns the element at an
\* index in [0, size-1].
C9_RandomPoolEmptyFails ==
  (call.name \in {"random_vector", "random_string"}) =>
    IF Len(call.pool) = 0
    THEN pc = "error" /\ ~oob
    ELSE pc = "done" /\ idx \in 0..(Len(call.pool) - 1) /\ ret = call.pool[idx + 1]

\* C10: unique_vector takes the shuffle-all path exactly when the domain size
\* r-l+1 is at most 10*n, and that path ends after its size-1 swaps without a
\* rejection set; otherwise it takes the rejection path, whose set never grows
\* past n and holds exactly n values when the loop is left.
C10_DensityThreshold ==
  (call.name = "unique_vector" /\ pc # "error") =>
    LET dom == r - l + 1 IN
    /\ (dom <= 10 * call.n =>
          /\ pc \in {"uv_shuffle", "done"}
          /\ Len(v) = dom /\ s = {}
          /\ k <= dom
          /\ (pc = "done" => k = dom))
    /\ (dom > 10 * call.n =>
          /\ pc \in {"uv_reject", "done"}
          /\ v = <<>>
          /\ Cardinality(s) <= call.n
          /\ (pc = "done" => Cardinality(s) = call.n))

C10_Witness ==
  pc = "done" /\ call.name = "unique_vector" /\ call.n >= 1
  /\ r - l + 1 = 10 * call.n /\ Len(v) = 10 * call.n /\ Len(uvec) = call.n

C12_WeightsMatchEdges ==
  (pc = "done" /\ call.name \in {"Tree", "BinaryTree", "Graph"}) =>
    /\ isWeighted = call.weighted
    /\ (isWeighted => Len(weights) = Len(edges))
    /\ (~isWeighted => weights = <<>>)

C12_Witness ==
  pc = "done" /\ call.name = "Graph" /\ isWeighted /\ Len(edges) >= 3
  /\ Len(weights) = Len(edges) /\ weights[1] # weights[2]

\* C13: all draws of a process come from one engine seeded once: no second
\* engine is ever constructed.
C13_SingleEngine == engines <= 1

\* C14: whenever BinaryTree's parent-selection loop runs for the vertex at
\* position i, one of the i placed vertices has a recorded child count that is
\* below 2, so some draw leaves the loop.
C14_SomePlacedVertexHasCapacity ==
  (call.name = "BinaryTree" /\ pc = "bt_loop" /\ i < call.n) =>
    \E j \in 0..(i - 1) :
      \A c \in ReadChildrenCount(children_count, perm[j + 1]) : c < 2

\* C15: every read and increment of children_count in BinaryTree uses an index
\* inside 0..n-1.
C15_ChildrenCountIndexInRange ==
  (call.name = "BinaryTree") => ~oob

====
